---- MODULE Spec2Model ----
(***************************************************************************)
(* Model of the experiment-sweep expander of tools/utils.py:               *)
(* Experiment.get_variants, Experiment.format_name and                     *)
(* Experiment.generate_configs_and_names, together with Config.copy and    *)
(* Config.save.                                                            *)
(*                                                                         *)
(* Python strings are sequences of one-character strings, so formatting,   *)
(* splitting and joining are computed character by character.  Python      *)
(* values are tagged records [t, n, s, l, m]: the tag t is "int", "str",    *)
(* "list", "map" or "none" and the payload is in n, s, l or m respectively.*)
(* A dict that is iterated (the Experiment itself, a variant) is a         *)
(* sequence of [k, v] entries in insertion order; a dict that is only      *)
(* indexed (a configuration mapping) is a function on its keys.            *)
(***************************************************************************)
EXTENDS Integers, Sequences, FiniteSets, TLC

VARIABLES
    axes,          \* the Experiment's own dict items: <<[k |-> key, v |-> candidates]>>
    paired_keys,   \* Experiment.paired_keys: list of lists of keys
    base_file,     \* mapping stored in the base document that Config.load reads
    base_config,   \* Experiment.base_config.config (the loaded base mapping)
    pc,            \* position in generate_configs_and_names
    groups,        \* get_variants: the local list `groups`
    variants,      \* generate_configs_and_names: the local `variants`
    idx,           \* number of completed iterations of the loop over variants
    copies,        \* number of calls of base_config.copy() so far
    files,         \* documents written by config.save, by allocation order
    configs_and_names, \* the local list of (config_path, name)
    err,           \* exception that left generate_configs_and_names
    returned       \* value returned to the caller

vars == <<axes, paired_keys, base_file, base_config, pc, groups, variants, idx, copies,
          files, configs_and_names, err, returned>>

(***************************************************************************)
(* Bounds of the enumerated inputs.                                        *)
(***************************************************************************)
MaxAxes == 3      \* axes in a declaration
MaxLen == 2       \* candidate values of an axis
MaxPaired == 2    \* key listings in paired_keys, over all groups

(***************************************************************************)
(* Python values.                                                          *)
(***************************************************************************)
VNone == [t |-> "none", n |-> 0, s |-> <<>>, l |-> <<>>, m |-> <<>>]
VInt(n) == [VNone EXCEPT !.t = "int", !.n = n]
VStr(s) == [VNone EXCEPT !.t = "str", !.s = s]
VList(l) == [VNone EXCEPT !.t = "list", !.l = l]
VMap(m) == [VNone EXCEPT !.t = "map", !.m = m]

Digits == <<"0", "1", "2", "3", "4", "5", "6", "7", "8", "9">>

RECURSIVE NatToStr(_)
NatToStr(n) ==
    IF n < 10 THEN <<Digits[n + 1]>>
    ELSE NatToStr(n \div 10) \o <<Digits[(n % 10) + 1]>>

\* str(n) of a Python int
IntToStr(n) == IF n < 0 THEN <<"-">> \o NatToStr(0 - n) ELSE NatToStr(n)

\* str(v) as used for the seed segment: an int prints its digits, a str is itself
PyStr(v) == IF v.t = "int" THEN IntToStr(v.n) ELSE v.s

RangeOf(s) == {s[i] : i \in 1..Len(s)}

Injective(s) == \A i, j \in 1..Len(s) : i # j => s[i] # s[j]

\* os.path.basename on a posix path: everything after the last "/"
Basename(s) ==
    LET slashes == {i \in 1..Len(s) : s[i] = "/"}
    IN  IF slashes = {} THEN s
        ELSE LET last == CHOOSE i \in slashes : \A j \in slashes : j <= i
             IN  SubSeq(s, last + 1, Len(s))

\* sep.join(parts)
RECURSIVE JoinWith(_, _)
JoinWith(sep, parts) ==
    IF parts = <<>> THEN <<>>
    ELSE IF Len(parts) = 1 THEN parts[1]
    ELSE parts[1] \o sep \o JoinWith(sep, Tail(parts))

\* Experiment.format_name for the value types it supports
RECURSIVE format_name(_)
format_name(v) ==
    IF v.t = "str" THEN
        IF "/" \in RangeOf(v.s) THEN Basename(v.s) ELSE v.s
    ELSE IF v.t = "int" THEN IntToStr(v.n)
    ELSE JoinWith(<<"_">>, [i \in 1..Len(v.l) |-> format_name(v.l[i])])

\* plain concatenation instead of a path join
PathJoin_Concat(a, b) == a \o b

\* os.path.join(a, b) on posix
PathJoin(a, b) ==
    IF b # <<>> /\ b[1] = "/" THEN b
    ELSE IF a = <<>> \/ a[Len(a)] = "/" THEN a \o b
    ELSE a \o <<"/">> \o b

\* k.split(".")
RECURSIVE Split(_)
Split(k) ==
    LET dots == {i \in 1..Len(k) : k[i] = "."}
    IN  IF dots = {} THEN <<k>>
        ELSE LET first == CHOOSE i \in dots : \A j \in dots : i <= j
             IN  <<SubSeq(k, 1, first - 1)>> \o Split(SubSeq(k, first + 1, Len(k)))

\* the trailing separator is left in place
DropLast_Keeps(s) == s

\* name[:-1]
DropLast(s) == IF s = <<>> THEN <<>> ELSE SubSeq(s, 1, Len(s) - 1)

(***************************************************************************)
(* Ordered dicts: sequences of [k, v] entries in insertion order.          *)
(***************************************************************************)
Keys(d) == [i \in 1..Len(d) |-> d[i].k]

Has(d, k) == \E i \in 1..Len(d) : d[i].k = k

Get(d, k) == d[CHOOSE i \in 1..Len(d) : d[i].k = k].v

\* d[k] = v: an existing key keeps its position, a new key goes last
DictPut(d, k, v) ==
    IF Has(d, k) THEN [i \in 1..Len(d) |-> IF d[i].k = k THEN [k |-> k, v |-> v] ELSE d[i]]
    ELSE Append(d, [k |-> k, v |-> v])

\* {key: variant[i] for i, key in enumerate(keys)}
RECURSIVE DictFrom(_, _)
DictFrom(keys, tuple) ==
    IF keys = <<>> THEN <<>>
    ELSE DictPut(DictFrom(SubSeq(keys, 1, Len(keys) - 1), tuple),
                 keys[Len(keys)], tuple[Len(keys)])

RECURSIVE ConcatAll(_)
ConcatAll(seqs) == IF seqs = <<>> THEN <<>> ELSE Head(seqs) \o ConcatAll(Tail(seqs))

(***************************************************************************)
(* Experiment.get_variants                                                 *)
(***************************************************************************)
\* a product whose inner loop stops one candidate short
RECURSIVE Product_SkipsLast(_)
Product_SkipsLast(lists) ==
    IF lists = <<>> THEN << <<>> >>
    ELSE LET rest == Product_SkipsLast(Tail(lists))
             hd == Head(lists)
         IN  ConcatAll([i \in 1..(Len(hd) - 1) |->
                          [j \in 1..Len(rest) |-> <<hd[i]>> \o rest[j]]])

\* a product in which the first list varies fastest
RECURSIVE Product_FirstFastest(_)
Product_FirstFastest(lists) ==
    IF lists = <<>> THEN << <<>> >>
    ELSE LET rest == Product_FirstFastest(Tail(lists))
             hd == Head(lists)
         IN  ConcatAll([j \in 1..Len(rest) |->
                          [i \in 1..Len(hd) |-> <<hd[i]>> \o rest[j]]])

\* itertools.product(*lists): tuples in odometer order, last list fastest
RECURSIVE Product(_)
Product(lists) ==
    IF lists = <<>> THEN << <<>> >>
    ELSE LET rest == Product(Tail(lists))
             hd == Head(lists)
         IN  ConcatAll([i \in 1..Len(hd) |->
                          [j \in 1..Len(rest) |-> <<hd[i]>> \o rest[j]]])

MinLen(lists) ==
    CHOOSE n \in {Len(lists[j]) : j \in 1..Len(lists)} :
        \A j \in 1..Len(lists) : n <= Len(lists[j])

\* zip(*lists): index-aligned tuples, as many as the shortest list has
Zip(lists) ==
    IF lists = <<>> THEN <<>>
    ELSE [i \in 1..MinLen(lists) |-> [j \in 1..Len(lists) |-> lists[j][i]]]

\* a check whose set of seen keys is reset for every group
PairedTwice_PerGroup(pk) == \E g \in 1..Len(pk) : ~Injective(pk[g])

\* the loop of lines 223-228: some key is met while already in the set paired_keys
PairedTwice(pk) ==
    LET flat == ConcatAll(pk)
    IN  \E i, j \in 1..Len(flat) : i < j /\ flat[i] = flat[j]

\* [key for key in self.keys() if key not in paired_keys]
UnpairedKeys(ax, pk) ==
    LET paired == RangeOf(ConcatAll(pk))
        NotPaired(key) == key \notin paired
    IN  SelectSeq(Keys(ax), NotPaired)

\* [{key: variant[i] for i, key in enumerate(keys)} for variant in tuples]
DictsOf(keys, tuples) == [n \in 1..Len(tuples) |-> DictFrom(keys, tuples[n])]

\* paired groups expanded with product instead of zip
GroupsOf_PairedProduct(ax, pk) ==
    LET unpaired_keys == UnpairedKeys(ax, pk)
        unpaired_variants ==
            DictsOf(unpaired_keys,
                    Product([i \in 1..Len(unpaired_keys) |-> Get(ax, unpaired_keys[i])]))
        PairVariant(key_pair) ==
            DictsOf(key_pair, Product([i \in 1..Len(key_pair) |-> Get(ax, key_pair[i])]))
    IN  <<unpaired_variants>> \o [g \in 1..Len(pk) |-> PairVariant(pk[g])]

\* the list `groups`: the unpaired block first, then one entry per paired group
GroupsOf(ax, pk) ==
    LET unpaired_keys == UnpairedKeys(ax, pk)
        unpaired_variants ==
            DictsOf(unpaired_keys,
                    Product([i \in 1..Len(unpaired_keys) |-> Get(ax, unpaired_keys[i])]))
        PairVariant(key_pair) ==
            DictsOf(key_pair, Zip([i \in 1..Len(key_pair) |-> Get(ax, key_pair[i])]))
    IN  <<unpaired_variants>> \o [g \in 1..Len(pk) |-> PairVariant(pk[g])]

\* d.update(x): the entries of x put into d in x's order
RECURSIVE PutAll(_, _, _)
PutAll(d, x, n) ==
    IF n = 0 THEN d ELSE DictPut(PutAll(d, x, n - 1), x[n].k, x[n].v)

\* {k: v for x in variant for k, v in x.items()}
RECURSIVE Collapse(_)
Collapse(variant) ==
    IF variant = <<>> THEN <<>>
    ELSE LET x == variant[Len(variant)]
         IN  PutAll(Collapse(SubSeq(variant, 1, Len(variant) - 1)), x, Len(x))

\* the list `variants` built from itertools.product(*groups)
VariantsOf(gs) ==
    LET group_variants == Product(gs)
    IN  [n \in 1..Len(group_variants) |-> Collapse(group_variants[n])]

ErrPaired == "ValueError: Key was paired multiple times!"
ErrKeyPath == "ValueError: Experiment specified key not in config"
ErrType == "TypeError"
NoErr == "none"

get_variants(ax, pk) ==
    IF PairedTwice(pk)
    THEN [err |-> ErrPaired, groups |-> <<>>, variants |-> <<>>]
    ELSE LET gs == GroupsOf(ax, pk)
         IN  [err |-> NoErr, groups |-> gs, variants |-> VariantsOf(gs)]

(***************************************************************************)
(* Config.copy and the merge of one key-path (lines 284, 289-304)          *)
(***************************************************************************)
\* a copy that creates the new Config and forgets its mapping
ConfigCopy_Fresh(config) == <<>>

\* copy.deepcopy(self.config): an equal mapping that shares nothing
ConfigCopy(config) == config

\* a copy that duplicates the top-level dict only: every nested mapping is
\* the same object in the copy and in the source
CopyShares_Shallow(config) ==
    {<<seg>> : seg \in {x \in DOMAIN config : config[x].t = "map"}}

\* the containers (named by their path, <<>> being the top-level dict) that
\* the copy shares with self.config; copy.deepcopy shares none
CopyShares(config) == {}

IsSubstr(a, b) ==
    \E i \in 1..(Len(b) + 1) : i + Len(a) - 1 <= Len(b) /\ SubSeq(b, i, i + Len(a) - 1) = a

\* Python's `seg in node`; only called on a node that supports it
Contains(node, seg) ==
    IF node.t = "map" THEN seg \in DOMAIN node.m
    ELSE IF node.t = "str" THEN IsSubstr(seg, node.s)
    ELSE \E i \in 1..Len(node.l) : node.l[i] = VStr(seg)

\* The while loop and the final assignment on the remaining config_path.
\* An int does not support `in`; a str or a list supports `in` but neither
\* indexing by a str nor item assignment by a str.
RECURSIVE SetPath(_, _, _)
SetPath(node, config_path, v) ==
    IF node.t \in {"int", "none"} THEN [err |-> ErrType, node |-> node]
    ELSE IF ~Contains(node, config_path[1]) THEN [err |-> ErrKeyPath, node |-> node]
    ELSE IF node.t # "map" THEN [err |-> ErrType, node |-> node]
    ELSE IF Len(config_path) > 1 THEN
        LET r == SetPath(node.m[config_path[1]], Tail(config_path), v)
        IN  IF r.err # NoErr THEN [err |-> r.err, node |-> node]
            ELSE [err |-> NoErr, node |-> VMap([node.m EXCEPT ![config_path[1]] = r.node])]
    ELSE [err |-> NoErr, node |-> VMap([node.m EXCEPT ![config_path[1]] = v])]

(***************************************************************************)
(* The body of the loop over variant.items() (lines 288-315) and the       *)
(* completion of the name (lines 317-321)                                  *)
(***************************************************************************)
KeyA == <<"a">>
KeyBC == <<"b", ".", "c">>
KeyEnv == <<"e", "n", "v">>
KeySeed == <<"s", "e", "e", "d">>

FOLDER_KEYS == {KeyEnv}

\* Experiment.name: the declaration file's base name without extension
ExperimentName == <<"s", "w">>

\* a name fragment that records the key but not the value
NameStep_KeyOnly(ax, st, k, v, last) ==
    IF k \in FOLDER_KEYS /\ Len(Get(ax, k)) > 1 THEN
        IF v.t # "str" THEN [st EXCEPT !.err = ErrType]
        ELSE [st EXCEPT !.name = PathJoin(v.s, st.name)]
    ELSE IF k = KeySeed /\ Len(Get(ax, KeySeed)) > 1 THEN
        [st EXCEPT !.seed = v]
    ELSE IF Len(Get(ax, k)) > 1 THEN
        [st EXCEPT !.name = st.name \o last \o <<"_">>,
                   !.remove_trailing_underscore = TRUE]
    ELSE st

\* lines 306-315: the effect of one (k, v) on name, seed and remove_trailing_underscore
NameStep(ax, st, k, v, last) ==
    IF k \in FOLDER_KEYS /\ Len(Get(ax, k)) > 1 THEN
        IF v.t # "str" THEN [st EXCEPT !.err = ErrType]
        ELSE [st EXCEPT !.name = PathJoin(v.s, st.name)]
    ELSE IF k = KeySeed /\ Len(Get(ax, KeySeed)) > 1 THEN
        [st EXCEPT !.seed = v]
    ELSE IF Len(Get(ax, k)) > 1 THEN
        [st EXCEPT !.name = st.name \o last \o <<"-">> \o format_name(v) \o <<"_">>,
                   !.remove_trailing_underscore = TRUE]
    ELSE st

IsPrefix(p, q) == Len(p) <= Len(q) /\ SubSeq(q, 1, Len(p)) = p

\* line 304 assigns into the dict object that config_dict refers to; when
\* that object is shared with the base, the base sees the assignment too.
\* The assigned item replaces whatever container was stored at config_path.
AssignThrough(st, config_path, v) ==
    LET container == SubSeq(config_path, 1, Len(config_path) - 1)
    IN  [st EXCEPT !.base = IF container \in st.shares
                            THEN SetPath(st.base, config_path, v).node
                            ELSE st.base,
                   !.shares = {p \in st.shares : ~IsPrefix(config_path, p)}]

\* lines 289-315 for one (k, v)
MergeKey(ax, st, k, v) ==
    LET config_path == Split(k)
        r == SetPath(st.config, config_path, v)
    IN  IF r.err # NoErr THEN [st EXCEPT !.err = r.err]
        ELSE NameStep(ax, AssignThrough([st EXCEPT !.config = r.node], config_path, v),
                      k, v, config_path[Len(config_path)])

\* the first n entries of variant.items(), stopping at the first exception
RECURSIVE MergeAll(_, _, _, _)
MergeAll(ax, st, variant, n) ==
    IF n = 0 THEN st
    ELSE LET prev == MergeAll(ax, st, variant, n - 1)
         IN  IF prev.err # NoErr THEN prev
             ELSE MergeKey(ax, prev, variant[n].k, variant[n].v)

\* lines 317-321
FinalName(st) ==
    LET trimmed == IF st.remove_trailing_underscore THEN DropLast(st.name) ELSE st.name
        named == PathJoin(ExperimentName, trimmed)
    IN  IF st.seed # VNone THEN PathJoin(named, <<"s", "e", "e", "d", "-">> \o PyStr(st.seed))
        ELSE named

\* lines 284-321 for one variant
MergeVariant(ax, base, variant) ==
    LET st0 == [config |-> VMap(ConfigCopy(base)), name |-> <<>>, seed |-> VNone,
                remove_trailing_underscore |-> FALSE, err |-> NoErr,
                base |-> VMap(base), shares |-> CopyShares(base)]
        st == MergeAll(ax, st0, variant, Len(variant))
    IN  [err |-> st.err, config |-> st.config.m, name |-> FinalName(st),
         base |-> st.base.m]

(***************************************************************************)
(* Enumerated inputs: the declaration (axes, paired_keys) and the base     *)
(* document.                                                               *)
(***************************************************************************)
KeyPool == {KeyA, KeyBC, KeyEnv, KeySeed}

PathLetters == <<"p", "q", "r", "s", "t">>
EnvLetters == <<"A", "B", "C", "D", "E">>

IntPool(i) == VInt(i)                                  \* 1, 2, 3, ...
DupPool(i) == VInt((i + 1) \div 2)                     \* 1, 1, 2, 2, ...
PathPool(i) == VStr(<<PathLetters[i], "/", "x">>)      \* "p/x", "q/x", ...
MixPool(i) == IF i = 1 THEN VStr(<<"1">>)              \* "1", [1, "c-2"], [1, 3], ...
              ELSE IF i = 2 THEN VList(<<VInt(1), VStr(<<"c", "-", "2">>)>>)
              ELSE VList(<<VInt(1), VInt(i)>>)
EnvPool(i) == VStr(<<EnvLetters[i]>>)                  \* "A", "B", ...
\* "A", 5, "C", ...: the second folder value is not a str
TypedPool(i) == IF i = 2 THEN VInt(5) ELSE EnvPool(i)
SeedPool(i) == VInt(i - 1)                             \* 0, 1, 2, ...
DeepPool(i) == VInt(i + 4)                             \* 5, 6, ...
TextPool(i) == IF i = 1 THEN VStr(<<"2", "_", "c", "-", "3">>)   \* "2_c-3", "3", "4", ...
               ELSE VStr(<<Digits[i + 2]>>)

\* candidate lists: 1..n of the plain pools for every n, and the pools that
\* hold repeated or equally formatted values at full length
Cands(key) ==
    IF key = KeyA THEN
        {[i \in 1..n |-> IntPool(i)] : n \in 0..MaxLen}
        \cup {[i \in 1..MaxLen |-> DupPool(i)], [i \in 1..MaxLen |-> PathPool(i)],
              [i \in 1..MaxLen |-> MixPool(i)]}
    ELSE IF key = KeyBC THEN
        {[i \in 1..n |-> DeepPool(i)] : n \in 1..MaxLen}
        \cup {[i \in 1..MaxLen |-> TextPool(i)]}
    ELSE IF key = KeyEnv THEN
        {[i \in 1..n |-> EnvPool(i)] : n \in 1..MaxLen}
        \cup {[i \in 1..MaxLen |-> TypedPool(i)]}
    ELSE {[i \in 1..n |-> SeedPool(i)] : n \in 1..MaxLen}

\* the orders in which a declaration can list its axes
KeyOrders == {ks \in UNION {[1..n -> KeyPool] : n \in 0..MaxAxes} : Injective(ks)}

\* a dict has each key once; every paired key names an axis
AxesOver(ks) ==
    {[i \in 1..Len(ks) |-> [k |-> ks[i], v |-> c[i]]] :
        c \in {c \in [1..Len(ks) -> UNION {Cands(k) : k \in RangeOf(ks)}] :
                 \A i \in 1..Len(ks) : c[i] \in Cands(ks[i])}}

GroupsOver(ks) ==
    {g \in UNION {[1..m -> RangeOf(ks)] : m \in 1..MaxPaired} : Injective(g)}

PairingsOver(ks) ==
    {pk \in UNION {[1..g -> GroupsOver(ks)] : g \in 0..MaxPaired} :
        Len(ConcatAll(pk)) <= MaxPaired}

EnvA == VStr(<<"A">>)

\* {a: 1, b: {c: 2}, env: "A", seed: 0}
BaseFull ==
    (<<"a">> :> VInt(1)) @@ (<<"b">> :> VMap(<<"c">> :> VInt(2)))
    @@ (KeyEnv :> EnvA) @@ (KeySeed :> VInt(0))

\* {a: 1, b: {d: 2}, env: "A", seed: 0}: the leaf of b.c is absent
BaseNoLeaf == [BaseFull EXCEPT ![<<"b">>] = VMap(<<"d">> :> VInt(2))]

\* {a: 1, b: 5, env: "A", seed: 0}: b is not a mapping
BaseScalar == [BaseFull EXCEPT ![<<"b">>] = VInt(5)]

\* {env: "A", seed: 0}: neither a nor b is there
BaseBare == (KeyEnv :> EnvA) @@ (KeySeed :> VInt(0))

\* the base documents that behave differently under the key-paths of ks
BaseDocs(ks) ==
    {BaseFull}
    \cup (IF ks = <<>> THEN {BaseNoLeaf, BaseScalar, BaseBare} ELSE {})
    \cup (IF KeyBC \in RangeOf(ks) THEN {BaseNoLeaf, BaseScalar, BaseBare} ELSE {})
    \cup (IF KeyA \in RangeOf(ks) THEN {BaseBare} ELSE {})

Init ==
    /\ \E ks \in KeyOrders :
          /\ axes \in AxesOver(ks)
          /\ paired_keys \in PairingsOver(ks)
          /\ base_file \in BaseDocs(ks)
    /\ base_config = base_file
    /\ pc = "start"
    /\ groups = <<>>
    /\ variants = <<>>
    /\ idx = 0
    /\ copies = 0
    /\ files = <<>>
    /\ configs_and_names = <<>>
    /\ err = NoErr
    /\ returned = <<>>

(***************************************************************************)
(* generate_configs_and_names                                              *)
(***************************************************************************)
\* line 281: variants = self.get_variants()
GetVariants ==
    /\ pc = "start"
    /\ LET r == get_variants(axes, paired_keys)
       IN  /\ groups' = r.groups
           /\ variants' = r.variants
           /\ err' = r.err
           /\ pc' = IF r.err # NoErr THEN "raised" ELSE "loop"
    /\ UNCHANGED <<axes, paired_keys, base_file, base_config, idx, copies, files,
                   configs_and_names, returned>>

\* a loop that records the exception of a variant and goes on to the next one
Materialize_SkipsFailed ==
    /\ pc = "loop"
    /\ idx < Len(variants)
    /\ LET m == MergeVariant(axes, base_config, variants[idx + 1])
           config_path == Len(files) + 1
       IN  /\ copies' = copies + 1
           /\ base_config' = m.base
           /\ idx' = idx + 1
           /\ IF m.err # NoErr
              THEN /\ err' = m.err
                   /\ UNCHANGED <<pc, files, configs_and_names>>
              ELSE /\ files' = Append(files, m.config)
                   /\ configs_and_names' =
                          Append(configs_and_names, [config_path |-> config_path, name |-> m.name])
                   /\ UNCHANGED <<pc, err>>
    /\ UNCHANGED <<axes, paired_keys, base_file, groups, variants, returned>>

\* lines 283-330: one iteration of the loop over the variants
Materialize ==
    /\ pc = "loop"
    /\ idx < Len(variants)
    /\ LET m == MergeVariant(axes, base_config, variants[idx + 1])
           config_path == Len(files) + 1
       IN  /\ copies' = copies + 1
           /\ base_config' = m.base
           /\ IF m.err # NoErr
              THEN /\ pc' = "raised"
                   /\ err' = m.err
                   /\ UNCHANGED <<idx, files, configs_and_names>>
              ELSE /\ files' = Append(files, m.config)
                   /\ configs_and_names' =
                          Append(configs_and_names, [config_path |-> config_path, name |-> m.name])
                   /\ idx' = idx + 1
                   /\ UNCHANGED <<pc, err>>
    /\ UNCHANGED <<axes, paired_keys, base_file, groups, variants, returned>>

\* line 332: return configs_and_names
Return ==
    /\ pc = "loop"
    /\ idx = Len(variants)
    /\ pc' = "done"
    /\ returned' = configs_and_names
    /\ UNCHANGED <<axes, paired_keys, base_file, base_config, groups, variants, idx, copies,
                   files, configs_and_names, err>>

Next == GetVariants \/ Materialize \/ Return

Spec == Init /\ [][Next]_vars

(***************************************************************************)
(* Vocabulary of the properties                                            *)
(***************************************************************************)
AxisLen(k) == Len(Get(axes, k))

\* get_variants has returned normally
Expanded == pc \in {"loop", "done"} \/ (pc = "raised" /\ err # ErrPaired)

RECURSIVE ProdSeq(_)
ProdSeq(s) == IF s = <<>> THEN 1 ELSE Head(s) * ProdSeq(Tail(s))

\* the product of the sizes of the axes whose key is not in `except`
SizeProduct(except) ==
    ProdSeq([i \in 1..Len(axes) |-> IF axes[i].k \in except THEN 1 ELSE Len(axes[i].v)])

VariantsDistinct == \A i, j \in 1..Len(variants) : i < j => variants[i] # variants[j]

NoRepeatedCandidate == \A i \in 1..Len(axes) : Injective(axes[i].v)

(***************************************************************************)
(* C1.  Original statement: with no paired groups, get_variants produces   *)
(* n1*...*nk variants and no two of them are identical.                    *)
(***************************************************************************)
C1_Original ==
    (Expanded /\ paired_keys = <<>>) =>
        /\ Len(variants) = SizeProduct({})
        /\ VariantsDistinct

\* C1 as amended: with no paired groups, get_variants produces exactly
\* n1*...*nk variants; no two of them are identical provided no axis lists
\* the same candidate value twice.
C1_ProductCount ==
    (Expanded /\ paired_keys = <<>>) =>
        /\ Len(variants) = SizeProduct({})
        /\ NoRepeatedCandidate => VariantsDistinct

C1_Witness ==
    /\ Expanded /\ paired_keys = <<>> /\ NoRepeatedCandidate
    /\ Len(axes) >= 2
    /\ \A i \in 1..Len(axes) : Len(axes[i].v) >= 2
    /\ Len(variants) >= 4

(***************************************************************************)
(* C2.  With exactly one paired group whose member axes all have length L, *)
(* the group contributes exactly L partial assignments, the i-th assigning *)
(* to every member key the i-th candidate of its axis, and the number of   *)
(* variants is L times the product of the unpaired axes' sizes.            *)
(***************************************************************************)
C2_PairedGroupZips ==
    (Expanded /\ Len(paired_keys) = 1) =>
        LET group == paired_keys[1]
            L == AxisLen(group[1])
        IN  (\A j \in 1..Len(group) : AxisLen(group[j]) = L) =>
                /\ Len(groups[2]) = L
                /\ \A i \in 1..L :
                      /\ Keys(groups[2][i]) = group
                      /\ \A j \in 1..Len(group) :
                            Get(groups[2][i], group[j]) = Get(axes, group[j])[i]
                /\ Len(variants) = L * SizeProduct(RangeOf(group))

C2_Witness ==
    /\ Expanded /\ Len(paired_keys) = 1 /\ Len(paired_keys[1]) = 2
    /\ \A j \in 1..2 : AxisLen(paired_keys[1][j]) = 2
    /\ Len(axes) = 3 /\ SizeProduct(RangeOf(paired_keys[1])) = 2
    /\ Len(variants) = 4

(***************************************************************************)
(* C3.  With zero axes and no paired groups there is exactly one variant,  *)
(* the empty assignment, and generate_configs_and_names materialises       *)
(* exactly one document, equal to the base document.                       *)
(***************************************************************************)
C3_EmptyAxisSet ==
    (axes = <<>> /\ paired_keys = <<>>) =>
        /\ pc # "raised"
        /\ pc # "start" => variants = << <<>> >>
        /\ pc = "done" =>
              /\ Len(files) = 1 /\ files[1] = base_config
              /\ Len(returned) = 1 /\ returned[1].config_path = 1

C3_Witness == axes = <<>> /\ paired_keys = <<>> /\ pc = "done" /\ Len(returned) = 1

(***************************************************************************)
(* C4.  A key-path listed in two different paired groups makes expansion   *)
(* raise before anything is expanded: no variant, no copy of the base      *)
(* document, no file.                                                      *)
(***************************************************************************)
InTwoGroups ==
    \E g, h \in 1..Len(paired_keys) :
        g < h /\ RangeOf(paired_keys[g]) \cap RangeOf(paired_keys[h]) # {}

C4_PairedTwiceRaises ==
    (InTwoGroups /\ pc # "start") =>
        /\ pc = "raised" /\ err = ErrPaired
        /\ groups = <<>> /\ variants = <<>>
        /\ copies = 0 /\ files = <<>> /\ configs_and_names = <<>> /\ returned = <<>>

C4_Witness == InTwoGroups /\ pc = "raised" /\ Len(axes) >= 2

(***************************************************************************)
(* C5.  Statement of the claim: a paired group whose member axes differ in *)
(* length is rejected with an error at expansion time and never yields     *)
(* variants.                                                               *)
(***************************************************************************)
MismatchedGroup ==
    \E g \in 1..Len(paired_keys) : \E i, j \in 1..Len(paired_keys[g]) :
        AxisLen(paired_keys[g][i]) # AxisLen(paired_keys[g][j])

C5_MismatchRejected ==
    (MismatchedGroup /\ pc # "start") =>
        /\ pc = "raised" /\ err \in {ErrPaired}
        /\ variants = <<>> /\ copies = 0

(***************************************************************************)
(* C6.  Statement of the claim: when some segment of an axis's key-path is *)
(* absent from the base document, merging the first variant raises the     *)
(* key-path error; no written document has a key-path the base lacks.      *)
(***************************************************************************)
RECURSIVE Present(_, _)
Present(node, path) ==
    /\ node.t = "map"
    /\ path[1] \in DOMAIN node.m
    /\ Len(path) = 1 \/ Present(node.m[path[1]], Tail(path))

SomePathAbsent ==
    \E i \in 1..Len(axes) : ~Present(VMap(base_config), Split(axes[i].k))

RECURSIVE PathsOf(_)
PathsOf(node) ==
    IF node.t # "map" THEN {}
    ELSE UNION {{<<seg>>} \cup {<<seg>> \o p : p \in PathsOf(node.m[seg])} :
                  seg \in DOMAIN node.m}

NoKeyIntroduced ==
    \A n \in 1..Len(files) : PathsOf(VMap(files[n])) \subseteq PathsOf(VMap(base_config))

C6_AbsentPathRaises ==
    /\ NoKeyIntroduced
    /\ (SomePathAbsent /\ copies >= 1) =>
          /\ pc = "raised" /\ err = ErrKeyPath
          /\ files = <<>>

(***************************************************************************)
(* Names: the parts of a derived name                                      *)
(***************************************************************************)
Swept(k) == AxisLen(k) > 1

\* a swept axis that is neither a folder-grouping key nor seed
Named(k) == Swept(k) /\ k \notin FOLDER_KEYS /\ k # KeySeed

HasNamed == \E i \in 1..Len(axes) : Named(axes[i].k)

EnvSegment(n) ==
    IF Has(axes, KeyEnv) /\ Swept(KeyEnv) THEN Get(variants[n], KeyEnv).s \o <<"/">> ELSE <<>>

SeedSegment(n) ==
    IF Has(axes, KeySeed) /\ Swept(KeySeed)
    THEN (IF HasNamed THEN <<"/">> ELSE <<>>)
         \o <<"s", "e", "e", "d", "-">> \o PyStr(Get(variants[n], KeySeed))
    ELSE <<>>

NamePrefix(n) == ExperimentName \o <<"/">> \o EnvSegment(n)

NameOf(n) == configs_and_names[n].name

\* what is left of the n-th name between the directory segments and the seed segment
FragmentOf(n) ==
    SubSeq(NameOf(n), Len(NamePrefix(n)) + 1, Len(NameOf(n)) - Len(SeedSegment(n)))

Component(n, k) ==
    LET config_path == Split(k)
    IN  config_path[Len(config_path)] \o <<"-">> \o format_name(Get(variants[n], k))

\* the components of the Named keys among ks, in the order of ks, joined by "_"
FragmentOver(n, ks) ==
    LET named == SelectSeq(ks, Named)
    IN  JoinWith(<<"_">>, [i \in 1..Len(named) |-> Component(n, named[i])])

\* the order of variant.items(): unpaired keys as declared, then the groups' members
VariantKeyOrder ==
    LET InNoGroup(k) == \A g \in 1..Len(paired_keys) : k \notin RangeOf(paired_keys[g])
    IN  SelectSeq(Keys(axes), InNoGroup) \o ConcatAll(paired_keys)

NoSeparatorInValues(n) ==
    \A a \in 1..Len(axes) :
        Named(axes[a].k) => "_" \notin RangeOf(format_name(Get(variants[n], axes[a].k)))

C7_WithoutProviso ==
    \A i, j \in 1..Len(configs_and_names) :
        (\E a \in 1..Len(axes) :
            /\ Named(axes[a].k)
            /\ format_name(Get(variants[i], axes[a].k))
                  # format_name(Get(variants[j], axes[a].k)))
        => FragmentOf(i) # FragmentOf(j)

(***************************************************************************)
(* C8.  Every derived name is <name>/<env value>/<fragment>[/seed-<value>]:*)
(* the sweep name is the root, a swept env is a directory segment before   *)
(* the fragment and a swept seed is the innermost segment, neither being   *)
(* part of the fragment, wherever env and seed are declared and whether    *)
(* they are paired or not.                                                 *)
(***************************************************************************)
C8_NameForm ==
    \A n \in 1..Len(configs_and_names) :
        /\ Len(NameOf(n)) >= Len(NamePrefix(n)) + Len(SeedSegment(n))
        /\ NameOf(n) = NamePrefix(n) \o FragmentOf(n) \o SeedSegment(n)
        /\ "/" \notin RangeOf(FragmentOf(n))
        /\ ~IsSubstr(KeyEnv \o <<"-">>, FragmentOf(n))
        /\ ~IsSubstr(KeySeed \o <<"-">>, FragmentOf(n))
        /\ HasNamed <=> FragmentOf(n) # <<>>

C8_Witness ==
    /\ pc = "done" /\ Len(returned) >= 4
    /\ Len(axes) = 3 /\ axes[3].k = KeyEnv /\ axes[1].k = KeySeed
    /\ Swept(KeyEnv) /\ Swept(KeySeed) /\ HasNamed
    /\ paired_keys = << <<KeySeed, KeyEnv>> >>

(***************************************************************************)
(* C9.  Variants are produced, and their (location, name) pairs returned,  *)
(* in odometer order: the unpaired axes first (first declared slowest),    *)
(* then the paired groups in declaration order, the last group fastest;    *)
(* the i-th pair holds the document of the i-th variant.                   *)
(***************************************************************************)
UnpairedDeclared ==
    LET InNoGroup(k) == \A g \in 1..Len(paired_keys) : k \notin RangeOf(paired_keys[g])
    IN  SelectSeq(Keys(axes), InNoGroup)

\* radix of every odometer wheel: an unpaired axis's size, a group's shortest member
Radices ==
    [i \in 1..Len(UnpairedDeclared) |-> AxisLen(UnpairedDeclared[i])]
    \o [g \in 1..Len(paired_keys) |->
          CHOOSE m \in {AxisLen(paired_keys[g][j]) : j \in 1..Len(paired_keys[g])} :
              \A j \in 1..Len(paired_keys[g]) : m <= AxisLen(paired_keys[g][j])]

\* position of wheel w when the odometer shows its n-th reading (both from 1)
Digit(n, w) ==
    (((n - 1) \div ProdSeq(SubSeq(Radices, w + 1, Len(Radices)))) % Radices[w]) + 1

WheelOf(k) ==
    IF \E i \in 1..Len(UnpairedDeclared) : UnpairedDeclared[i] = k
    THEN CHOOSE i \in 1..Len(UnpairedDeclared) : UnpairedDeclared[i] = k
    ELSE Len(UnpairedDeclared)
         + (CHOOSE g \in 1..Len(paired_keys) : k \in RangeOf(paired_keys[g]))

OdometerValue(n, k) == Get(axes, k)[Digit(n, WheelOf(k))]

RECURSIVE DocGet(_, _)
DocGet(node, path) ==
    IF Len(path) = 1 THEN node.m[path[1]] ELSE DocGet(node.m[path[1]], Tail(path))

C9_OdometerOrder ==
    /\ Expanded =>
          /\ Len(variants) = ProdSeq(Radices)
          /\ \A n \in 1..Len(variants) :
                /\ RangeOf(Keys(variants[n])) = RangeOf(Keys(axes))
                /\ \A a \in 1..Len(axes) :
                      Get(variants[n], axes[a].k) = OdometerValue(n, axes[a].k)
    /\ Len(configs_and_names) = idx /\ Len(files) = idx
    /\ \A n \in 1..Len(configs_and_names) :
          /\ configs_and_names[n].config_path = n
          /\ \A a \in 1..Len(axes) :
                DocGet(VMap(files[n]), Split(axes[a].k)) = OdometerValue(n, axes[a].k)
    /\ pc = "done" => returned = configs_and_names /\ Len(returned) = Len(variants)

C9_Witness ==
    /\ pc = "done" /\ Len(returned) = 8
    /\ Len(UnpairedDeclared) = 2 /\ Len(paired_keys) = 1

(***************************************************************************)
(* C10.  Original statement: the fragment has one component                *)
(* <lastPathSegment>-<formattedValue> per swept axis that is neither a     *)
(* folder-grouping key nor seed, in the declared axis order, joined by "_" *)
(* with no trailing separator.                                             *)
(***************************************************************************)
C10_Original ==
    \A n \in 1..Len(configs_and_names) : FragmentOf(n) = FragmentOver(n, Keys(axes))

\* C10 as amended: the components appear in the order of the variant's keys:
\* the unpaired axes in declared order, then the members of the paired
\* groups in the order paired_keys lists them.
C10_FragmentComponents ==
    \A n \in 1..Len(configs_and_names) : FragmentOf(n) = FragmentOver(n, VariantKeyOrder)

C10_Witness ==
    /\ pc = "done" /\ Len(returned) = 4
    /\ Len(axes) = 3 /\ axes[1].k = KeyA /\ axes[2].k = KeySeed /\ axes[3].k = KeyBC
    /\ paired_keys = << <<KeyA>> >>
    /\ Named(KeyA) /\ Named(KeyBC) /\ ~Swept(KeySeed)

(***************************************************************************)
(* C11: materialisation is fail-fast.  Once the merge or the naming of the *)
(* k-th variant has raised, the exception has left                         *)
(* generate_configs_and_names (pc = "raised"), the k-th variant is the     *)
(* last one that was cloned (copies = k), only the k-1 variants before it  *)
(* were named and written, and nothing is returned to the caller, not even *)
(* the k-1 pairs already appended to the local list.                       *)
(***************************************************************************)
FailedInLoop == err \notin {NoErr, ErrPaired}

RECURSIVE Override(_, _, _)
Override(node, path, v) ==
    VMap([node.m EXCEPT ![path[1]] = IF Len(path) = 1 THEN v
                                       ELSE Override(node.m[path[1]], Tail(path), v)])

RECURSIVE OverrideAll(_, _, _)
OverrideAll(doc, variant, n) ==
    IF n = 0 THEN doc
    ELSE Override(OverrideAll(doc, variant, n - 1), Split(variant[n].k), variant[n].v)

C12_BaseNeverMutated ==
    /\ base_config = base_file
    /\ \A n \in 1..Len(files) :
          VMap(files[n]) = OverrideAll(VMap(base_file), variants[n], Len(variants[n]))

\* one variant was saved with another b.c than the base's, and the next one
\* assigned b.c in its copy before its naming raised
C12_Witness ==
    /\ pc = "raised"
    /\ FailedInLoop
    /\ idx >= 1
    /\ Has(axes, KeyBC)
    /\ variants[idx + 1][1].k = KeyBC
    /\ files[1] # base_file
    /\ base_config = base_file

====
